---- MODULE Spec2Model ----
(***************************************************************************)
(* Model of modules/predict.py (Predictor.predict and                      *)
(* Predictor.speech_to_text) of ComfyUI_Notte.                              *)
(*                                                                         *)
(* Time is counted in ticks of 0.1 s, the size of the merge margin, so     *)
(* that margin = 1 tick, one second = 10 ticks and the 2 s grouping gap is *)
(* 20 ticks.  A string is a sequence of one-character strings.             *)
(***************************************************************************)
EXTENDS Integers, Sequences, FiniteSets, TLC

\* ------------------------------------------------------------------ bounds
\* the most words the speech-to-text engine returns
MaxWords == 3
\* the most turns the diarization engine returns
MaxTurns == 2

\* --------------------------------------------------------------- constants
\* margin = 0.1 (seconds): one tick
margin == 1
TicksPerSecond == 10 * margin
\* time_gap <= 2 (seconds)
GapThreshold == 2 * TicksPerSecond

Speakers == {"SPEAKER_00", "SPEAKER_01"}
Formats == {"segments_only", "words_only", "both"}
\* the value of a Python local that has not been bound yet
Unbound == "<unbound>"
NoGroup == [none |-> TRUE]
\* transcript_info.language of the run
DetectedLanguage == "en"

\* ----------------------------------------------------------------- strings
SP == " "

RECURSIVE Join(_)
\* "".join(parts)
Join(parts) ==
    IF parts = <<>> THEN <<>> ELSE Head(parts) \o Join(Tail(parts))

RECURSIVE LStrip(_)
LStrip(s) ==
    IF s # <<>> /\ Head(s) = SP THEN LStrip(Tail(s)) ELSE s

RECURSIVE RStrip(_)
RStrip(s) ==
    IF s # <<>> /\ s[Len(s)] = SP THEN RStrip(SubSeq(s, 1, Len(s) - 1)) ELSE s

\* str.strip()
Strip(s) == RStrip(LStrip(s))

RECURSIVE SubTwoSpaces(_)
\* re.sub("  ", " ", s): non-overlapping pairs of spaces, left to right
SubTwoSpaces(s) ==
    IF Len(s) >= 2 /\ s[1] = SP /\ s[2] = SP
    THEN <<SP>> \o SubTwoSpaces(SubSeq(s, 3, Len(s)))
    ELSE IF s = <<>> THEN <<>>
    ELSE <<Head(s)>> \o SubTwoSpaces(Tail(s))

\* ------------------------------------------------------- engine conversions
\* lines 212-219: one engine word, shifted by offset_seconds
ConvertWord(w, off) ==
    [start |-> w.start + off * TicksPerSecond,
     end |-> w.end + off * TicksPerSecond,
     word |-> w.word,
     probability |-> w.probability]

\* lines 206-223: the engine's segments as dicts, shifted by offset_seconds
ConvertSegments(engine, off) ==
    [k \in 1..Len(engine) |->
        [avg_logprob |-> engine[k].avg_logprob,
         start |-> engine[k].start + off * TicksPerSecond,
         end |-> engine[k].end + off * TicksPerSecond,
         words |-> [j \in 1..Len(engine[k].words) |->
                       ConvertWord(engine[k].words[j], off)]]]

\* a slip in lines 252-255: the turns are counted, not their labels
DetectedNumSpeakers_CountTurns(turns) == Len(turns)

\* lines 252-255: the number of distinct speaker labels
DetectedNumSpeakers(turns) ==
    Cardinality({turns[k].speaker : k \in 1..Len(turns)})

\* ------------------------------------------------------------ the merge loop
\* lines 269-270: the widened window of a (converted) word
WordStart(word, off) == word.start + off * TicksPerSecond - margin
WordEnd(word, off) == word.end + off * TicksPerSecond + margin

\* a slip in line 275: the turn's end is not compared
TurnMatches_StartOnly(turn, ws, we) == turn.start <= we

\* line 275: the turn overlaps the window
TurnMatches(turn, ws, we) == turn.start <= we /\ turn.end >= ws

\* line 283: the matched turn is used up by this word
TurnUsedUp(turn, we) == turn.end <= we

\* line 287: the turn lies before the window
TurnBefore(turn, ws) == turn.end < ws

RECURSIVE ScanTurns(_, _, _, _, _)
\* lines 272-290: the while loop for one word; idx is speaker_idx (0-based),
\* spk the local `speaker`.  hit says whether the word was appended and
\* turn which entry of diarization_list (0-based) matched it.
ScanTurns(idx, spk, ws, we, turns) ==
    IF idx >= Len(turns)
    THEN [speaker_idx |-> idx, speaker |-> spk, hit |-> FALSE, turn |-> -1]
    ELSE LET t == turns[idx + 1] IN
         IF TurnMatches(t, ws, we)
         THEN [speaker_idx |-> IF TurnUsedUp(t, we) THEN idx + 1 ELSE idx,
               speaker |-> t.speaker, hit |-> TRUE, turn |-> idx]
         ELSE IF TurnBefore(t, ws)
         THEN ScanTurns(idx + 1, t.speaker, ws, we, turns)
         ELSE [speaker_idx |-> idx, speaker |-> t.speaker, hit |-> FALSE,
               turn |-> -1]

\* lines 268-290: the body of the word loop for one word, on the loop state
\* st = [speaker_idx, speaker, segment_text, segment_words, matched]
\* (matched: the turn matched by each retained word, kept for the claims)
WordStep(st, word, off, turns) ==
    LET r == ScanTurns(st.speaker_idx, st.speaker,
                       WordStart(word, off), WordEnd(word, off), turns)
    IN  [speaker_idx |-> r.speaker_idx,
         speaker |-> r.speaker,
         segment_text |-> IF r.hit THEN Append(st.segment_text, word.word)
                          ELSE st.segment_text,
         segment_words |-> IF r.hit
                           THEN Append(st.segment_words,
                                       [word EXCEPT !.word = Strip(word.word)])
                           ELSE st.segment_words,
         matched |-> IF r.hit THEN Append(st.matched, r.turn) ELSE st.matched]

\* lines 293-302: the labelled segment built when segment_text is not empty
NewSegment(segment, st, off) ==
    [avg_logprob |-> segment.avg_logprob,
     start |-> (segment.start + off * TicksPerSecond) - off * TicksPerSecond,
     end |-> (segment.end + off * TicksPerSecond) - off * TicksPerSecond,
     speaker |-> st.speaker,
     text |-> Strip(SubTwoSpaces(Join(st.segment_text))),
     words |-> st.segment_words]

\* the merge loop's state as WordStep takes it
LoopState(idx, spk, text, words, m) ==
    [speaker_idx |-> idx, speaker |-> spk, segment_text |-> text,
     segment_words |-> words, matched |-> m]

\* ------------------------------------------------------------- the grouping
HasText(fmt) == fmt \in {"segments_only", "both"}
HasWords(fmt) == fmt \in {"words_only", "both"}

\* lines 320-330 and 349-358: a group started from one labelled segment
StartGroup(s, fmt) ==
    LET base == [start |-> s.start, end |-> s.end, speaker |-> s.speaker,
                 avg_logprob |-> s.avg_logprob]
        t == IF HasText(fmt) THEN base @@ ("text" :> s.text) ELSE base
    IN  IF HasWords(fmt) THEN t @@ ("words" :> s.words) ELSE t

\* line 334
TimeGap(segs, k) == segs[k].start - segs[k - 1].end

\* a slip in line 338: a gap of exactly two seconds does not group
Groupable_StrictGap(segs, k, gs) ==
    /\ segs[k].speaker = segs[k - 1].speaker
    /\ TimeGap(segs, k) < GapThreshold
    /\ gs

\* line 338: segment k (1-based, k > 1) joins the open group
Groupable(segs, k, gs) ==
    /\ segs[k].speaker = segs[k - 1].speaker
    /\ TimeGap(segs, k) <= GapThreshold
    /\ gs

\* a slip in line 341: no separating space
JoinText_NoSpace(a, b) == a \o b

\* line 341: current_group["text"] += " " + segments[i]["text"]
JoinText(a, b) == a \o <<SP>> \o b

\* a slip in line 343: the words are put in front of the list
ExtendWords_Prepend(g, ws) ==
    IF "words" \in DOMAIN g THEN [g EXCEPT !.words = ws \o @]
    ELSE g @@ ("words" :> ws)

\* line 343: current_group.setdefault("words", []).extend(segments[i]["words"])
ExtendWords(g, ws) ==
    IF "words" \in DOMAIN g THEN [g EXCEPT !.words = @ \o ws]
    ELSE g @@ ("words" :> ws)

\* a slip in lines 340-343: the word list is extended whatever the format
MergeGroup_AlwaysWords(g, s, fmt) ==
    LET e == [g EXCEPT !.end = s.end]
        t == IF HasText(fmt) THEN [e EXCEPT !.text = JoinText(@, s.text)] ELSE e
    IN  ExtendWords(t, s.words)

\* lines 339-343: the open group after segment s was merged into it
MergeGroup(g, s, fmt) ==
    LET e == [g EXCEPT !.end = s.end]
        t == IF HasText(fmt) THEN [e EXCEPT !.text = JoinText(@, s.text)] ELSE e
    IN  IF HasWords(fmt) THEN ExtendWords(t, s.words) ELSE t

\* ------------------------------------------- the whole function, as a fold
RECURSIVE MergeWords(_, _, _, _)
\* lines 268-290: the word loop over the words of one segment
MergeWords(st, words, off, turns) ==
    IF words = <<>> THEN st
    ELSE MergeWords(WordStep(st, Head(words), off, turns), Tail(words), off, turns)

RECURSIVE MergeLoop(_, _, _, _)
\* lines 261-303: the merge loop; acc carries speaker_idx, speaker and
\* final_segments from one segment to the next
MergeLoop(acc, segs, off, turns) ==
    IF segs = <<>> THEN acc
    ELSE LET st == MergeWords(LoopState(acc.speaker_idx, acc.speaker,
                                        <<>>, <<>>, <<>>),
                              Head(segs).words, off, turns)
         IN  MergeLoop(
                 [speaker_idx |-> st.speaker_idx,
                  speaker |-> st.speaker,
                  final_segments |->
                      IF st.segment_text # <<>>
                      THEN Append(acc.final_segments,
                                  NewSegment(Head(segs), st, off))
                      ELSE acc.final_segments],
                 Tail(segs), off, turns)

RECURSIVE GroupLoop(_, _, _, _, _, _)
\* lines 332-361: the grouping scan from segment k on, cg the open group
GroupLoop(segs, k, cg, out, gs, fmt) ==
    IF k > Len(segs) THEN Append(out, cg)
    ELSE IF Groupable(segs, k, gs)
    THEN GroupLoop(segs, k + 1, MergeGroup(cg, segs[k], fmt), out, gs, fmt)
    ELSE GroupLoop(segs, k + 1, StartGroup(segs[k], fmt), Append(out, cg), gs, fmt)

\* lines 249-303: final_segments of a run
LabeledSegments(engine, turns, off) ==
    MergeLoop([speaker_idx |-> 0, speaker |-> Unbound, final_segments |-> <<>>],
              ConvertSegments(engine, off), off, turns).final_segments

\* lines 178-373: what speech_to_text returns
SpeechToText(engine, turns, off, gs, fmt) ==
    LET fs == LabeledSegments(engine, turns, off)
    IN  [segments |-> IF fs = <<>> THEN <<>>
                      ELSE GroupLoop(fs, 2, StartGroup(fs[1], fmt), <<>>, gs, fmt),
         num_speakers |-> DetectedNumSpeakers(turns),
         language |-> DetectedLanguage]

\* ------------------------------------------------------------------- state
VARIABLES
    source,                    \* which of file, file_url, file_string is given
    progress_callback,         \* whether self.progress_callback is set
    wav_bound,                 \* whether temp_wav_filename is bound (line 77)
    wav_exists,                \* whether the temp-*.wav file exists
    audio_exists,              \* whether the temp-*.audio file exists
    exc,                       \* the exception caught at line 167, or "none"
    raised,                    \* the exception predict ends with, or "none"
    cause,                     \* what the RuntimeError of line 169 wraps
    offset_seconds,            \* argument, in seconds
    group_segments,            \* argument
    transcript_output_format,  \* argument
    engine_segments,           \* what self.model.transcribe yields in this run
    engine_turns,              \* what the diarization pipeline yields in this run
    pc,                        \* the position in speech_to_text
    segments,                  \* line 206: the converted segments
    diarization_list,          \* line 251
    detected_num_speakers,     \* line 255
    speaker_idx,               \* line 257
    speaker,                   \* the local bound at line 273
    seg_k,                     \* the merge loop's position in segments (1-based)
    word_k,                    \* the word loop's position in the segment's words
    segment_text,              \* line 264
    segment_words,             \* line 265
    final_segments,            \* line 249; from line 315 the name segments denotes it
    current_group,             \* line 320
    group_first,               \* which final segment's word list current_group["words"] is
    output,                    \* line 317
    i,                         \* line 332
    result,                    \* the returned triple
    matched,                   \* history: the turn matched by each word of segment_words
    seg_matched                \* history: per final segment, the turn of its last retained word

vars ==
    <<source, progress_callback, wav_bound, wav_exists, audio_exists, exc,
      raised, cause, offset_seconds, group_segments, transcript_output_format, engine_segments,
      engine_turns, pc, segments, diarization_list, detected_num_speakers,
      speaker_idx, speaker, seg_k, word_k, segment_text, segment_words,
      final_segments, current_group, group_first, output, i, result, matched,
      seg_matched>>

files == <<wav_bound, wav_exists, audio_exists>>
failure == <<exc, raised, cause>>
predictLocals == <<source, progress_callback, files, failure>>
args == <<offset_seconds, group_segments, transcript_output_format>>
engines == <<engine_segments, engine_turns>>
mergeLocals ==
    <<speaker_idx, speaker, seg_k, word_k, segment_text, segment_words,
      final_segments, matched, seg_matched>>
groupLocals == <<current_group, group_first, output, i>>

\* ------------------------------------------------------- the engines' outputs
\* the time points of a run, in ticks: four points one margin apart, and two
\* more that lie about the grouping gap after them
NearTimes == {0, margin, 2 * margin, 3 * margin}
FarTimes == {GapThreshold + 3 * margin, GapThreshold + 4 * margin}
Times == NearTimes \cup FarTimes

\* the raw text of the p-th engine word: Whisper's words carry their spaces
WordTexts == << <<SP, "a", SP>>, <<SP, "b">>, <<SP, SP, "c">> >>
RawWord(p) == WordTexts[((p - 1) % Len(WordTexts)) + 1]

\* a word lasts one tick
WordSpans == {sp \in Times \X Times : sp[2] - sp[1] = margin}

\* the word streams: up to MaxWords spans, in any order
WordStreams == UNION {[1..n -> WordSpans] : n \in 0..MaxWords}

\* Whisper yields the words in the order of their start
TimeOrdered(stream) ==
    \A k \in 1..(Len(stream) - 1) : stream[k][1] < stream[k + 1][1]

\* the engine segments of a stream cut after the positions in cuts; with
\* word timestamps a segment starts with its first word and ends with its last
SegmentsOf(stream, cuts) ==
    LET n == Len(stream)
        ends == cuts \cup {n}
        starts == {1} \cup {c + 1 : c \in cuts}
        nth(S, k) == CHOOSE x \in S : Cardinality({y \in S : y <= x}) = k
    IN  [k \in 1..Cardinality(ends) |->
            LET a == nth(starts, k)
                b == nth(ends, k)
            IN  [start |-> stream[a][1],
                 end |-> stream[b][2],
                 avg_logprob |-> -k,
                 words |-> [j \in 1..(b - a + 1) |->
                              [start |-> stream[a + j - 1][1],
                               end |-> stream[a + j - 1][2],
                               word |-> RawWord(a + j - 1),
                               probability |-> 1]]]]

SegmentLists(streams) ==
    {<<>>} \cup
    UNION {{SegmentsOf(st, cuts) : cuts \in SUBSET (1..(Len(st) - 1))} :
             st \in streams \ {<<>>}}

\* a turn lies within one cluster of time points
Turns ==
    {t \in [start : Times, end : Times, speaker : Speakers] :
        /\ t.start < t.end
        /\ t.end - t.start <= 3 * margin}

\* itertracks yields the tracks of the annotation sorted by (start, end)
TurnOrder(a, b) == a.start < b.start \/ (a.start = b.start /\ a.end <= b.end)

TurnLists ==
    {tl \in UNION {[1..n -> Turns] : n \in 0..MaxTurns} :
        \A k \in 1..(Len(tl) - 1) : TurnOrder(tl[k], tl[k + 1])}

\* the arguments of a run: every grouping flag and output format without an
\* offset, and an offset of one second with both fields in the output
Configs ==
    [offset_seconds : {0}, group_segments : BOOLEAN,
     transcript_output_format : Formats]
    \cup [offset_seconds : {1}, group_segments : BOOLEAN,
          transcript_output_format : {"both"}]

\* ------------------------------------------------------------------ actions
\* the locals of speech_to_text before it runs, with the given arguments and
\* the results the engines will give
Entry(configs, segment_lists) ==
    /\ \E c \in configs :
          /\ offset_seconds = c.offset_seconds
          /\ group_segments = c.group_segments
          /\ transcript_output_format = c.transcript_output_format
    /\ engine_segments \in segment_lists
    /\ engine_turns \in TurnLists
    /\ exc = "none"
    /\ raised = "none"
    /\ cause = "none"
    /\ segments = <<>>
    /\ diarization_list = <<>>
    /\ detected_num_speakers = 0
    /\ speaker_idx = 0
    /\ speaker = Unbound
    /\ seg_k = 0
    /\ word_k = 0
    /\ segment_text = <<>>
    /\ segment_words = <<>>
    /\ final_segments = <<>>
    /\ current_group = NoGroup
    /\ group_first = 0
    /\ output = <<>>
    /\ i = 0
    /\ result = NoGroup
    /\ matched = <<>>
    /\ seg_matched = <<>>

\* lines 204-223
Transcribe ==
    /\ pc = "transcribe"
    /\ wav_exists
    /\ segments' = ConvertSegments(engine_segments, offset_seconds)
    /\ pc' = "diarize"
    /\ UNCHANGED <<predictLocals, args, engines, diarization_list, detected_num_speakers,
                   mergeLocals, groupLocals, result>>

\* lines 231-258
Diarize ==
    /\ pc = "diarize"
    /\ diarization_list' = engine_turns
    /\ detected_num_speakers' = DetectedNumSpeakers(engine_turns)
    /\ final_segments' = <<>>
    /\ speaker_idx' = 0
    /\ seg_k' = 1
    /\ pc' = "for_segment"
    /\ UNCHANGED <<predictLocals, args, engines, segments, speaker, word_k, segment_text,
                   segment_words, matched, seg_matched, groupLocals, result>>

\* lines 261-265: the next segment, or the end of the merge loop
ForSegment ==
    /\ pc = "for_segment"
    /\ IF seg_k <= Len(segments)
       THEN /\ segment_text' = <<>>
            /\ segment_words' = <<>>
            /\ matched' = <<>>
            /\ word_k' = 1
            /\ pc' = "for_word"
       ELSE /\ pc' = "merged"
            /\ UNCHANGED <<segment_text, segment_words, matched, word_k>>
    /\ UNCHANGED <<predictLocals, args, engines, segments, diarization_list,
                   detected_num_speakers, speaker_idx, speaker, seg_k,
                   final_segments, seg_matched, groupLocals, result>>

\* lines 268-290: one word of the segment
ForWord ==
    /\ pc = "for_word"
    /\ word_k <= Len(segments[seg_k].words)
    /\ LET st == WordStep(LoopState(speaker_idx, speaker, segment_text,
                                    segment_words, matched),
                          segments[seg_k].words[word_k], offset_seconds,
                          diarization_list)
       IN  /\ speaker_idx' = st.speaker_idx
           /\ speaker' = st.speaker
           /\ segment_text' = st.segment_text
           /\ segment_words' = st.segment_words
           /\ matched' = st.matched
           \* line 280 strips the word in place, in the segment's own list
           /\ segments' =
                 IF Len(st.segment_words) > Len(segment_words)
                 THEN [segments EXCEPT ![seg_k].words[word_k].word = Strip(@)]
                 ELSE segments
    /\ word_k' = word_k + 1
    /\ UNCHANGED <<predictLocals, args, engines, pc, diarization_list,
                   detected_num_speakers, seg_k, final_segments, seg_matched,
                   groupLocals, result>>

\* lines 292-303: the segment is emitted when it kept a word
SegmentEnd ==
    /\ pc = "for_word"
    /\ word_k > Len(segments[seg_k].words)
    /\ IF segment_text # <<>>
       THEN /\ final_segments' =
                  Append(final_segments,
                         NewSegment(segments[seg_k],
                                    LoopState(speaker_idx, speaker, segment_text,
                                              segment_words, matched),
                                    offset_seconds))
            /\ seg_matched' = Append(seg_matched, matched[Len(matched)])
       ELSE UNCHANGED <<final_segments, seg_matched>>
    /\ seg_k' = seg_k + 1
    /\ pc' = "for_segment"
    /\ UNCHANGED <<predictLocals, args, engines, segments, diarization_list,
                   detected_num_speakers, speaker_idx, speaker, word_k,
                   segment_text, segment_words, matched, groupLocals, result>>

\* lines 311-312
ReturnEmpty ==
    /\ pc = "merged"
    /\ final_segments = <<>>
    /\ result' = [segments |-> <<>>, num_speakers |-> detected_num_speakers,
                  language |-> DetectedLanguage]
    /\ pc' = "returned"
    /\ UNCHANGED <<predictLocals, args, engines, segments, diarization_list,
                   detected_num_speakers, mergeLocals, groupLocals>>

\* lines 315-330: the first group
FirstGroup ==
    /\ pc = "merged"
    /\ final_segments # <<>>
    /\ segments' = final_segments
    /\ output' = <<>>
    /\ current_group' = StartGroup(final_segments[1], transcript_output_format)
    /\ group_first' = 1
    /\ i' = 1
    /\ pc' = "grouping"
    /\ UNCHANGED <<predictLocals, args, engines, diarization_list, detected_num_speakers,
                   mergeLocals, result>>

\* lines 338-343: segments[i] joins the open group.  current_group["words"]
\* is the word list of the segment that started the group, so extending it
\* extends that segment's list too
GroupMerge ==
    /\ pc = "grouping"
    /\ i < Len(segments)
    /\ Groupable(segments, i + 1, group_segments)
    /\ current_group' = MergeGroup(current_group, segments[i + 1],
                                   transcript_output_format)
    /\ segments' = IF HasWords(transcript_output_format)
                   THEN [segments EXCEPT ![group_first].words =
                            @ \o segments[i + 1].words]
                   ELSE segments
    /\ i' = i + 1
    /\ UNCHANGED <<predictLocals, args, engines, pc, diarization_list, detected_num_speakers,
                   mergeLocals, group_first, output, result>>

\* lines 344-358: the open group is emitted and segments[i] starts the next
GroupClose ==
    /\ pc = "grouping"
    /\ i < Len(segments)
    /\ ~Groupable(segments, i + 1, group_segments)
    /\ output' = Append(output, current_group)
    /\ current_group' = StartGroup(segments[i + 1], transcript_output_format)
    /\ group_first' = i + 1
    /\ i' = i + 1
    /\ UNCHANGED <<predictLocals, args, engines, pc, segments, diarization_list,
                   detected_num_speakers, mergeLocals, result>>

\* lines 361-373
Return ==
    /\ pc = "grouping"
    /\ i >= Len(segments)
    /\ output' = Append(output, current_group)
    /\ result' = [segments |-> Append(output, current_group),
                  num_speakers |-> detected_num_speakers,
                  language |-> DetectedLanguage]
    /\ pc' = "returned"
    /\ UNCHANGED <<predictLocals, args, engines, segments, diarization_list,
                   detected_num_speakers, mergeLocals, current_group,
                   group_first, i>>

\* speech_to_text is entered (line 204) from a predict that converted the
\* audio of a file_url without a progress callback, as Notte.process calls it
Init ==
    /\ Entry(Configs, SegmentLists({st \in WordStreams : TimeOrdered(st)}))
    /\ source = "file_url"
    /\ progress_callback = FALSE
    /\ wav_bound = TRUE
    /\ wav_exists = TRUE
    /\ audio_exists = FALSE
    /\ pc = "transcribe"

Next ==
    \/ Transcribe
    \/ Diarize
    \/ ForSegment
    \/ ForWord
    \/ SegmentEnd
    \/ ReturnEmpty
    \/ FirstGroup
    \/ GroupMerge
    \/ GroupClose
    \/ Return

Spec == Init /\ [][Next]_vars

\* speech_to_text is entered as in Init, with no offset and the default
\* arguments, and an engine whose one or two words come in any order
InitUnordered ==
    /\ Entry({c \in Configs : /\ c.offset_seconds = 0
                              /\ c.group_segments
                              /\ c.transcript_output_format = "both"},
             SegmentLists({st \in WordStreams : Len(st) <= 2}))
    /\ source = "file_url"
    /\ progress_callback = FALSE
    /\ wav_bound = TRUE
    /\ wav_exists = TRUE
    /\ audio_exists = FALSE
    /\ pc = "transcribe"

\* the runs of Spec, and those on words in any order
SpecAnyOrder == (Init \/ InitUnordered) /\ [][Next]_vars

\* ------------------------------------------------------------------ predict
Sources == {"file", "file_url", "file_string", "none"}

s2tLocals ==
    <<segments, diarization_list, detected_num_speakers, mergeLocals,
      groupLocals, result>>

\* lines 57-60: _update_progress returns (the callback is unset, or returns)
Progress(at, next) ==
    /\ pc = at
    /\ pc' = next
    /\ UNCHANGED <<predictLocals, args, engines, s2tLocals>>

\* an operation at `at` raises e: control goes to line 167
Raises(at, e) ==
    /\ pc = at
    /\ exc' = e
    /\ pc' = "except"
    /\ UNCHANGED <<source, progress_callback, files, raised, cause, args,
                   engines, s2tLocals>>

\* lines 59-60: the callback raises
ProgressRaises(at) == progress_callback /\ Raises(at, "callback")

\* line 76
Progress25 == Progress("p_start", "p_name")
Progress25Raises == ProgressRaises("p_start")

\* lines 77-79, 96, 120: temp_wav_filename is bound, the source is chosen
BindWavName ==
    /\ pc = "p_name"
    /\ wav_bound' = TRUE
    /\ pc' = IF source = "none" THEN "p_progress40" ELSE "source_progress"
    /\ UNCHANGED <<source, progress_callback, wav_exists, audio_exists,
                   failure, args, engines, s2tLocals>>

\* lines 80, 97, 121
Progress30 ==
    /\ pc = "source_progress"
    /\ pc' = CASE source = "file" -> "ffmpeg"
               [] source = "file_url" -> "download"
               [] OTHER -> "decode"
    /\ UNCHANGED <<predictLocals, args, engines, s2tLocals>>
Progress30Raises == ProgressRaises("source_progress")

\* line 98
Download == Progress("download", "audio_open")
DownloadRaises == Raises("download", "requests")

\* lines 122-124
Decode == Progress("decode", "audio_open")
DecodeRaises == Raises("decode", "b64decode")

\* lines 99-100, 125-126: open(temp_audio_filename, "wb") creates the file
OpenAudio ==
    /\ pc = "audio_open"
    /\ audio_exists' = TRUE
    /\ pc' = "audio_write"
    /\ UNCHANGED <<source, progress_callback, wav_bound, wav_exists, failure,
                   args, engines, s2tLocals>>
OpenAudioRaises == Raises("audio_open", "open")

\* lines 101, 127
WriteAudio == Progress("audio_write", "ffmpeg")
WriteAudioRaises == Raises("audio_write", "write")

\* lines 81-94, 103-116, 129-142: subprocess.run without check returns
\* whatever ffmpeg's exit status; the wav file is there or not
Ffmpeg ==
    /\ pc = "ffmpeg"
    /\ wav_exists' \in BOOLEAN
    /\ pc' = IF source = "file" THEN "p_progress40" ELSE "audio_remove"
    /\ UNCHANGED <<source, progress_callback, wav_bound, audio_exists,
                   failure, args, engines, s2tLocals>>
\* subprocess.run raises when the executable cannot be started
FfmpegRaises == Raises("ffmpeg", "ffmpeg")

\* lines 118-119, 144-145
RemoveAudio ==
    /\ pc = "audio_remove"
    /\ audio_exists' = FALSE
    /\ pc' = "p_progress40"
    /\ UNCHANGED <<source, progress_callback, wav_bound, wav_exists, failure,
                   args, engines, s2tLocals>>

\* line 147
Progress40 == Progress("p_progress40", "s2t_progress50")
Progress40Raises == ProgressRaises("p_progress40")

\* lines 148, 190
Progress50 == Progress("s2t_progress50", "transcribe")
Progress50Raises == ProgressRaises("s2t_progress50")

\* line 204: the engine raises, as it does when the wav file is not there
TranscribeRaises == Raises("transcribe", "transcribe")

\* lines 231-233: torchaudio.load, the callback or the pipeline raises
DiarizeRaises ==
    \E e \in {"load", "diarization"} \cup
             (IF progress_callback THEN {"callback"} ELSE {}) :
        Raises("diarize", e)

\* line 372: the callback raises before speech_to_text returns
Progress90Raises ==
    /\ i >= Len(segments)
    /\ ProgressRaises("grouping")

\* line 160
Progress100 == Progress("returned", "p_return")
Progress100Raises == ProgressRaises("returned")

\* lines 161-165
PredictReturn == Progress("p_return", "finally")

\* lines 167-169: the callback is told, the RuntimeError wraps the exception
Except ==
    /\ pc = "except"
    /\ raised' = "RuntimeError"
    /\ cause' = exc
    /\ pc' = "finally"
    /\ UNCHANGED <<source, progress_callback, files, exc, args, engines,
                   s2tLocals>>

\* line 168: the callback raises in the handler, and that exception leaves it
ExceptProgressRaises ==
    /\ pc = "except"
    /\ progress_callback
    /\ raised' = "callback"
    /\ pc' = "finally"
    /\ UNCHANGED <<source, progress_callback, files, exc, cause, args,
                   engines, s2tLocals>>

\* lines 171-173: reading temp_wav_filename raises when line 77 was not
\* reached; otherwise the wav file is removed when it is there
Finally ==
    /\ pc = "finally"
    /\ IF wav_bound
       THEN wav_exists' = FALSE /\ UNCHANGED raised
       ELSE raised' = "UnboundLocalError" /\ UNCHANGED wav_exists
    /\ pc' = "p_done"
    /\ UNCHANGED <<source, progress_callback, wav_bound, audio_exists, exc,
                   cause, args, engines, s2tLocals>>

\* the engines' results of the runs of predict: up to two words
PredictSegmentLists ==
    SegmentLists({st \in WordStreams : TimeOrdered(st) /\ Len(st) <= 2})

\* predict is called with one source or none and the other arguments at
\* their defaults
InitPredict ==
    /\ Entry({c \in Configs : /\ c.offset_seconds = 0
                              /\ c.group_segments
                              /\ c.transcript_output_format = "both"},
             PredictSegmentLists)
    /\ source \in Sources
    /\ progress_callback \in BOOLEAN
    /\ wav_bound = FALSE
    /\ wav_exists = FALSE
    /\ audio_exists = FALSE
    /\ pc = "p_start"

NextPredict ==
    \/ Progress25 \/ Progress25Raises
    \/ BindWavName
    \/ Progress30 \/ Progress30Raises
    \/ Download \/ DownloadRaises
    \/ Decode \/ DecodeRaises
    \/ OpenAudio \/ OpenAudioRaises
    \/ WriteAudio \/ WriteAudioRaises
    \/ Ffmpeg \/ FfmpegRaises
    \/ RemoveAudio
    \/ Progress40 \/ Progress40Raises
    \/ Progress50 \/ Progress50Raises
    \/ TranscribeRaises
    \/ DiarizeRaises
    \/ Progress90Raises
    \/ Progress100 \/ Progress100Raises
    \/ PredictReturn
    \/ Except \/ ExceptProgressRaises
    \/ Finally
    \/ Next

SpecPredict == InitPredict /\ [][NextPredict]_vars

\* the step-by-step run and the fold agree on what is returned
RunIsFold ==
    pc = "returned" =>
        result = SpeechToText(engine_segments, engine_turns, offset_seconds,
                              group_segments, transcript_output_format)

\* ------------------------------------------------------------------ claims
Range(f) == {f[k] : k \in DOMAIN f}

\* the groups a state holds: the emitted ones, the open one, the returned ones
HeldGroups ==
    Range(output)
    \cup (IF current_group = NoGroup THEN {} ELSE {current_group})
    \cup (IF result = NoGroup THEN {} ELSE Range(result.segments))

\* the words of every segment or group a state holds
HeldWords ==
    Range(segment_words)
    \cup UNION {Range(fs.words) : fs \in Range(final_segments)}
    \cup UNION {Range(g.words) : g \in {h \in HeldGroups : "words" \in DOMAIN h}}

\* the engine's words, in the order the merge loop visits them
RECURSIVE Flatten(_)
Flatten(segs) ==
    IF segs = <<>> THEN <<>> ELSE Head(segs).words \o Flatten(Tail(segs))

NonDecreasingStart(seq) ==
    \A k \in 1..(Len(seq) - 1) : seq[k].start <= seq[k + 1].start

\* turn T and the widened window of word w overlap (engine times)
Overlaps(T, w) == T.start <= w.end + margin /\ T.end >= w.start - margin

SomeTurnOverlaps(w) ==
    \E k \in 1..Len(engine_turns) : Overlaps(engine_turns[k], w)

\* C1: with offset_seconds = 0, every labelled segment the merge loop emits
\* carries the label of the turn that was matched to its last retained word.
C1_SpeakerOfLastRetainedWord ==
    offset_seconds = 0 =>
        \A k \in 1..Len(final_segments) :
            final_segments[k].speaker
                = diarization_list[seg_matched[k] + 1].speaker

\* C2: with group_segments, two adjacent groups of the output differ in
\* speaker or lie more than two seconds apart (end of the first, as stored in
\* the group, to start of the second).
C2_GroupingCorrectness ==
    (pc = "returned" /\ group_segments) =>
        \A k \in 1..(Len(result.segments) - 1) :
            LET g1 == result.segments[k]
                g2 == result.segments[k + 1]
            IN  g1.speaker # g2.speaker \/ g2.start - g1.end > GapThreshold

\* C2's case: a group built by a merge is followed, more than two seconds
\* later, by a group of the same speaker
C2_Witness ==
    /\ pc = "returned"
    /\ group_segments
    /\ Len(result.segments) = 2
    /\ Len(final_segments) = 3
    /\ result.segments[1].end # final_segments[1].end
    /\ result.segments[1].speaker = result.segments[2].speaker
    /\ result.segments[2].start - result.segments[1].end > GapThreshold

\* C3: with offset_seconds = 0, every word held in a segment or group
\* overlaps, widened by the margin, some turn of the diarization; a word no
\* turn overlaps is in no segment and no group.
C3_CoverageBound ==
    offset_seconds = 0 => \A w \in HeldWords : SomeTurnOverlaps(w)

\* C3's case: the engine's words were out of order, the run returned words
\* and dropped an engine word that no turn overlaps
C3_Witness ==
    /\ pc = "returned"
    /\ offset_seconds = 0
    /\ ~NonDecreasingStart(Flatten(engine_segments))
    /\ \E g \in Range(result.segments) : "words" \in DOMAIN g /\ g.words # <<>>
    /\ \E w \in Range(Flatten(engine_segments)) : ~SomeTurnOverlaps(w)

\* C5: when no word survives the alignment, speech_to_text returns the empty
\* group sequence, the detected language and the number of distinct labels of
\* the diarization (0 without turns); without an offset that is the case
\* whenever there is no turn or no turn overlaps any widened word.
C5_EmptyResult ==
    pc = "returned" =>
        /\ final_segments = <<>> =>
              /\ result.segments = <<>>
              /\ result.language = DetectedLanguage
              /\ result.num_speakers
                    = Cardinality({t.speaker : t \in Range(engine_turns)})
        /\ engine_turns = <<>> =>
              (result.segments = <<>> /\ result.num_speakers = 0)
        /\ (offset_seconds = 0
              /\ \A w \in Range(Flatten(engine_segments)) : ~SomeTurnOverlaps(w))
              => result.segments = <<>>

\* C5's case: the engine returned words and two turns of one speaker, and no
\* word survived
C5_Witness ==
    /\ pc = "returned"
    /\ engine_segments # <<>>
    /\ Len(engine_turns) = 2
    /\ engine_turns[1].speaker = engine_turns[2].speaker
    /\ final_segments = <<>>
    /\ result.segments = <<>>
    /\ result.num_speakers = 1

\* C6: a group, started or extended, has no word list under segments_only,
\* no text under words_only, and both under both.
C6_ShapeInvariant ==
    \A g \in HeldGroups :
        /\ ("text" \in DOMAIN g) <=> transcript_output_format # "words_only"
        /\ ("words" \in DOMAIN g) <=> transcript_output_format # "segments_only"

\* C6's case: a group that was extended by a merge is returned under
\* segments_only
C6_Witness ==
    /\ pc = "returned"
    /\ transcript_output_format = "segments_only"
    /\ Len(result.segments) < Len(final_segments)

\* C7: when the engine's segments are ordered by start and its word stream is
\* non-decreasing in start, the returned groups are non-decreasing in start
\* and so is the word list of every group, with and without grouping.
C7_OrderPreservation ==
    (/\ pc = "returned"
     /\ NonDecreasingStart(engine_segments)
     /\ NonDecreasingStart(Flatten(engine_segments))) =>
        /\ NonDecreasingStart(result.segments)
        /\ \A g \in Range(result.segments) :
              "words" \in DOMAIN g => NonDecreasingStart(g.words)

\* C7's case: two groups are returned, one of them with the words of more
\* than one segment
C7_Witness ==
    /\ pc = "returned"
    /\ Len(result.segments) = 2
    /\ Len(final_segments) = 3
    /\ \E g \in Range(result.segments) : "words" \in DOMAIN g /\ Len(g.words) >= 2

RECURSIVE TextsJoined(_, _, _)
\* the texts of ls[j..k] with one space between neighbours
TextsJoined(ls, j, k) ==
    IF j = k THEN ls[j].text
    ELSE TextsJoined(ls, j, k - 1) \o <<" ">> \o ls[k].text

RECURSIVE WordsConcatenated(_, _, _)
WordsConcatenated(ls, j, k) ==
    IF j = k THEN ls[j].words
    ELSE WordsConcatenated(ls, j, k - 1) \o ls[k].words

\* the group C8 describes for the labelled segments ls[j..k]
RunGroup(ls, j, k, fmt) ==
    LET base == [start |-> ls[j].start, speaker |-> ls[j].speaker,
                 avg_logprob |-> ls[j].avg_logprob, end |-> ls[k].end]
        t == IF fmt = "words_only" THEN base
             ELSE base @@ ("text" :> TextsJoined(ls, j, k))
    IN  IF fmt = "segments_only" THEN t
        ELSE t @@ ("words" :> WordsConcatenated(ls, j, k))

\* the groups of ls[1..n] cut after the positions in cuts
RunGroups(ls, n, cuts, fmt) ==
    LET ends == cuts \cup {n}
        starts == {1} \cup {c + 1 : c \in cuts}
        nth(S, k) == CHOOSE x \in S : Cardinality({y \in S : y <= x}) = k
    IN  IF n = 0 THEN <<>>
        ELSE [k \in 1..Cardinality(ends) |->
                 RunGroup(ls, nth(starts, k), nth(ends, k), fmt)]

\* the groups built so far, the open one last, are runs of the labelled
\* segments consumed so far
C8_GroupsAreRuns ==
    pc \in {"grouping", "returned"} =>
        LET n == IF pc = "grouping" THEN i ELSE Len(final_segments)
            held == IF pc = "grouping" THEN Append(output, current_group)
                    ELSE result.segments
        IN  \E cuts \in SUBSET (1..(n - 1)) :
                held = RunGroups(final_segments, n, cuts,
                                 transcript_output_format)

\* no step changes an emitted group, and a merge step changes only end, text
\* and words of the open group
C8_StepFrame ==
    /\ \A k \in 1..Len(output) : Len(output') >= k /\ output'[k] = output[k]
    /\ (pc = "grouping" /\ i' = i + 1 /\ Len(output') = Len(output)) =>
          /\ DOMAIN current_group' = DOMAIN current_group
          /\ \A f \in DOMAIN current_group \ {"end", "text", "words"} :
                current_group'[f] = current_group[f]

NonOverlappingTurns ==
    \A k \in 1..(Len(engine_turns) - 1) :
        engine_turns[k].end <= engine_turns[k + 1].start

\* the words the merge loop has not examined yet
LaterWords ==
    IF pc = "for_word"
    THEN Range(SubSeq(segments[seg_k].words, word_k, Len(segments[seg_k].words)))
         \cup Range(Flatten(SubSeq(segments, seg_k + 1, Len(segments))))
    ELSE IF pc = "for_segment"
    THEN Range(Flatten(SubSeq(segments, seg_k, Len(segments))))
    ELSE {}

\* the words the merge loop has examined and not retained
DroppedWords ==
    IF pc \in {"for_word", "for_segment"}
    THEN {w \in Range(Flatten(segments)) \ LaterWords :
            \A r \in HeldWords : r.start # w.start \/ r.end # w.end}
    ELSE {}

\* C9: with offset_seconds = 0, a time-ordered word stream and ordered,
\* non-overlapping turns, a turn the cursor has passed overlaps the widened
\* window of no later word, and no word was dropped while a passed turn
\* overlapped its window.
C9_PassedTurnsAreSpent ==
    (offset_seconds = 0 /\ NonOverlappingTurns) =>
        \A j \in 1..speaker_idx :
            /\ \A w \in LaterWords : ~Overlaps(diarization_list[j], w)
            /\ \A w \in DroppedWords : ~Overlaps(diarization_list[j], w)

ShiftWord(w, d) == [w EXCEPT !.start = @ + d, !.end = @ + d]

ShiftGroup(g, d) ==
    LET t == [g EXCEPT !.start = @ + d, !.end = @ + d]
    IN  IF "words" \in DOMAIN g
        THEN [t EXCEPT !.words = [k \in 1..Len(g.words) |-> ShiftWord(g.words[k], d)]]
        ELSE t

\* C10: what a run returns is what the run without an offset returns, every
\* start and end shifted by offset_seconds: the retained words, the speakers
\* and the groups do not depend on the offset.
C10_OffsetOnlyShifts ==
    pc = "returned" =>
        LET base == SpeechToText(engine_segments, engine_turns, 0,
                                 group_segments, transcript_output_format)
        IN  result =
                [base EXCEPT !.segments =
                    [k \in 1..Len(base.segments) |->
                        ShiftGroup(base.segments[k],
                                   offset_seconds * TicksPerSecond)]]

\* C4: when predict ends by raising, whatever the source and the step that
\* failed, neither temporary file of the run exists any more and the
\* exception is the RuntimeError that wraps the original one.
C4_FailureReleasesTempFiles ==
    (pc = "p_done" /\ raised # "none") =>
        /\ ~audio_exists
        /\ ~wav_exists
        /\ raised = "RuntimeError"
        /\ cause = exc

====
